---- MODULE Spec2Model ----
(***************************************************************************)
(* Model of tests/helpers/load_state_tests.py: the blockchain-test replay  *)
(* (load_test, run_blockchain_st_test, add_blocks_to_chain) and the        *)
(* fixture discovery (load_json_fixture, fetch_state_test_files).          *)
(*                                                                         *)
(* Spec         : one replay of one fixture against one engine.            *)
(* SpecDiscover : one run of the fetch_state_test_files generator.         *)
(***************************************************************************)
EXTENDS Integers, Sequences, FiniteSets, TLC

VARIABLES
    \* ---- replay (run_blockchain_st_test) ----
    fixture,         \* the JSON test object json_data = data[test_key]
    proof_of_stake,  \* load.proof_of_stake
    pc,              \* position inside run_blockchain_st_test
    idx,             \* add_blocks_to_chain's loop index (1-based here)
    chain,           \* the BlockChain object (live = it has been constructed)
    patched,         \* this replay runs its blocks under the mock of validate_proof_of_work
    mock_calls,      \* mocked_pow_validator.mock_calls (header arguments)
    closed,          \* the stores close_state has been called on
    outcome,         \* "running", "passed" or the exception that propagated
    trace,           \* history: every check evaluated, <<name, index, result>>
    \* ---- discovery (fetch_state_test_files) ----
    dfiles,          \* the *.json files under test_dir, in traversal order: [path, data]
    only_in,         \* only_in argument: indexes into dfiles, in list order
    ignore_list,     \* ignore_list argument (patterns)
    slow_list,       \* slow_list argument
    big_memory_list, \* big_memory_list argument
    dpc,             \* position inside fetch_state_test_files
    files_to_iterate,\* files_to_iterate (indexes into dfiles)
    fpos,            \* position of the outer for loop in files_to_iterate
    found_keys,      \* keys load_json_fixture still has to yield
    yielded,         \* what the generator has yielded: sequence of [file, key, tag]
    no_tests         \* history: positions in files_to_iterate that raised NoTestsFound

rvars == <<fixture, proof_of_stake, pc, idx, chain, patched, mock_calls,
           closed, outcome, trace>>
dvars == <<dfiles, only_in, ignore_list, slow_list, big_memory_list, dpc,
           files_to_iterate, fpos, found_keys, yielded, no_tests>>
vars == <<rvars, dvars>>

\* ------------------------------------------------------------------ bounds
\* most blocks in a fixture
MaxBlocks == 2
\* most invocations of the validation hook by one state_transition call
MaxHookCalls == 2
\* fixture files under test_dir
MaxFiles == 2
\* most entries of the only_in argument
MaxOnlyIn == 2

\* ------------------------------------------------- replay: data and codecs
GenesisHeader == 0
\* the header of the i-th block of the fixture; headers of a chain are distinct
HeaderOf(i) == i
BlockOf(i) == [header |-> HeaderOf(i)]

\* rlp.rlp_hash and rlp.encode: injective, abstracted to tagged values
rlp_hash(h) == <<"keccak", h>>
rlp_encode(b) == <<"rlp", b.header>>
\* a hash / an encoding that belongs to no header / block of the fixture
BadHash == <<"keccak", -1>>
BadRlp == <<"rlp", -1>>

StateVals == {"s0", "s1"}
Absent == "absent"

\* The JSON test objects: what the fixture declares, independently of what the
\* decoded blocks hash and encode to. n is the length of the "blocks" array;
\* a blocks array json_to_blocks cannot decode has at least one element.
AllFixtures ==
    UNION { [ blocksDecodable     : BOOLEAN,
              postState           : StateVals \cup {Absent},
              sealEngine          : {"NoProof", "Ethash"},
              genesis_hash        : {rlp_hash(GenesisHeader), BadHash},
              n                   : {n},
              block_header_hashes :
                  { f \in [1..n -> {rlp_hash(HeaderOf(i)) : i \in 1..n} \cup {BadHash}] :
                        \A i \in 1..n : f[i] \in {rlp_hash(HeaderOf(i)), BadHash} },
              block_rlps          :
                  { f \in [1..n -> {rlp_encode(BlockOf(i)) : i \in 1..n} \cup {BadRlp}] :
                        \A i \in 1..n : f[i] \in {rlp_encode(BlockOf(i)), BadRlp} },
              lastblockhash       : {rlp_hash(HeaderOf(n)), BadHash} ]
            : n \in 0..MaxBlocks }

Fixtures == { fx \in AllFixtures : fx.blocksDecodable \/ fx.n >= 1 }

\* ---------------------------------------------------------------- load_test
\* The exception load_test raises, "none" when it returns: json_to_blocks runs
\* first (line 40), the postState lookup after it (lines 44-47).
load_test_raises(fx) ==
    IF ~fx.blocksDecodable THEN "RLPDecodingError"
    ELSE IF fx.postState = Absent THEN "NoPostState"
    ELSE "none"

\* The dictionary load_test returns (lines 50-66).
load_test(fx) ==
    [ genesis_header        |-> GenesisHeader,
      genesis_header_hash   |-> fx.genesis_hash,
      last_block_hash       |-> fx.lastblockhash,
      pre_state             |-> "s0",
      expected_post_state   |-> fx.postState,
      blocks                |-> [i \in 1..fx.n |-> BlockOf(i)],
      block_header_hashes   |-> fx.block_header_hashes,
      block_rlps            |-> fx.block_rlps,
      ignore_pow_validation |-> (fx.sealEngine = "NoProof") ]

test_data == load_test(fixture)

\* ------------------------------------------------- run_blockchain_st_test
NoChain == [live |-> FALSE, blocks |-> <<>>, state |-> "s0"]

\* faulty variant: the genesis assertion compares the declared hash with itself
GenesisCheck_unchecked(td) == td.genesis_header_hash = td.genesis_header_hash

\* line 84
GenesisCheck(td) == rlp_hash(td.genesis_header) = td.genesis_header_hash

\* faulty variant: the proof-of-stake flag is not consulted
UsePatch_ignores_pos(ignore_pow_validation, pos) == ignore_pow_validation

\* line 99, negated: TRUE when the else branch (the patch) is taken
UsePatch(ignore_pow_validation, pos) == ~(~ignore_pow_validation \/ pos)

\* faulty variant: the loop compares the first block's hash on every iteration
BlockHashCheck_first(td, i) == rlp_hash(td.blocks[1].header) = td.block_header_hashes[1]

\* lines 124-126
BlockHashCheck(td, i) == rlp_hash(td.blocks[i].header) = td.block_header_hashes[i]

\* line 127
BlockRlpCheck(td, i) == rlp_encode(td.blocks[i]) = td.block_rlps[i]

\* faulty variant: an engine error is swallowed and the loop moves to the next block
AfterTransition_swallow(accepted, i) ==
    [pc |-> "loop", idx |-> i + 1, outcome |-> "running"]

\* Where add_blocks_to_chain goes after load.state_transition returned
\* (accepted) or raised: the loop has no handler, the error propagates.
AfterTransition(accepted, i) ==
    IF accepted THEN [pc |-> "loop", idx |-> i + 1, outcome |-> "running"]
    ELSE [pc |-> "raised", idx |-> i, outcome |-> "InvalidBlock"]

\* unittest.mock assert_has_calls(expected, any_order=False): expected must
\* occur in mock_calls as one contiguous run; calls before and after it are
\* allowed.
assert_has_calls(calls, expected) ==
    \E k \in 0..(Len(calls) - Len(expected)) :
        \A j \in 1..Len(expected) : calls[k + j] = expected[j]

\* line 108
ExpectedCalls(td) == [i \in 1..Len(td.blocks) |-> td.blocks[i].header]

\* lines 112-114
LastHashCheck(ch, td) == rlp_hash(ch.blocks[Len(ch.blocks)].header) = td.last_block_hash

\* line 115
PostStateCheck(ch, td) == ch.state = td.expected_post_state

\* The engine (load.state_transition): on success the block is appended to
\* the chain and the state is whatever the engine computed.
EngineApply(ch, block, s) ==
    [live |-> TRUE, blocks |-> Append(ch.blocks, block), state |-> s]

\* The invocations of validate_proof_of_work one state_transition call makes:
\* any number up to MaxHookCalls, each with this block's or its parent's header.
HookCalls(i) ==
    UNION { [1..k -> {HeaderOf(i), HeaderOf(i - 1)}] : k \in 0..MaxHookCalls }

Raise(exc) ==
    /\ pc' = "raised"
    /\ outcome' = exc

Log(name, i, ok) == trace' = Append(trace, <<name, i, ok>>)

LoadTest ==
    /\ pc = "start"
    /\ IF load_test_raises(fixture) # "none"
         THEN Raise(load_test_raises(fixture))
         ELSE pc' = "genesis" /\ UNCHANGED outcome
    /\ UNCHANGED <<patched, fixture, proof_of_stake, idx, chain, mock_calls, closed, trace>>

CheckGenesis ==
    /\ pc = "genesis"
    /\ Log("genesis_hash", 0, GenesisCheck(test_data))
    /\ IF GenesisCheck(test_data)
         THEN pc' = "init_chain" /\ UNCHANGED outcome
         ELSE Raise("AssertionError")
    /\ UNCHANGED <<patched, fixture, proof_of_stake, idx, chain, mock_calls, closed>>

InitChain ==
    /\ pc = "init_chain"
    /\ chain' = [live |-> TRUE,
                 blocks |-> <<[header |-> test_data.genesis_header]>>,
                 state |-> test_data.pre_state]
    /\ pc' = "branch"
    /\ UNCHANGED <<fixture, proof_of_stake, idx, patched, mock_calls, closed,
                   outcome, trace>>

Branch ==
    /\ pc = "branch"
    /\ patched' = UsePatch(test_data.ignore_pow_validation, proof_of_stake)
    /\ idx' = 1
    /\ pc' = "loop"
    /\ UNCHANGED <<fixture, proof_of_stake, chain, mock_calls, closed, outcome, trace>>

CheckBlockHash ==
    /\ pc = "loop"
    /\ idx <= Len(test_data.blocks)
    /\ Log("block_hash", idx, BlockHashCheck(test_data, idx))
    /\ IF BlockHashCheck(test_data, idx)
         THEN pc' = "block_rlp" /\ UNCHANGED outcome
         ELSE Raise("AssertionError")
    /\ UNCHANGED <<patched, fixture, proof_of_stake, idx, chain, mock_calls, closed>>

CheckBlockRlp ==
    /\ pc = "block_rlp"
    /\ Log("block_rlp", idx, BlockRlpCheck(test_data, idx))
    /\ IF BlockRlpCheck(test_data, idx)
         THEN pc' = "state_transition" /\ UNCHANGED outcome
         ELSE Raise("AssertionError")
    /\ UNCHANGED <<patched, fixture, proof_of_stake, idx, chain, mock_calls, closed>>

StateTransition ==
    /\ pc = "state_transition"
    /\ \E accepted \in BOOLEAN, s \in StateVals, calls \in HookCalls(idx) :
         LET nxt == AfterTransition(accepted, idx) IN
           /\ Log("state_transition", idx, accepted)
           /\ mock_calls' = IF patched THEN mock_calls \o calls ELSE mock_calls
           /\ chain' = IF accepted THEN EngineApply(chain, test_data.blocks[idx], s)
                       ELSE chain
           /\ idx' = nxt.idx
           /\ IF nxt.pc = "raised"
                THEN Raise(nxt.outcome)
                ELSE pc' = nxt.pc /\ UNCHANGED outcome
    /\ UNCHANGED <<fixture, proof_of_stake, closed, patched>>

LoopExit ==
    /\ pc = "loop"
    /\ idx > Len(test_data.blocks)
    /\ pc' = IF patched THEN "assert_calls" ELSE "final_hash"
    /\ UNCHANGED <<fixture, proof_of_stake, idx, chain, patched, mock_calls, closed,
                   outcome, trace>>

AssertHasCalls ==
    /\ pc = "assert_calls"
    /\ Log("has_calls", 0, assert_has_calls(mock_calls, ExpectedCalls(test_data)))
    /\ IF assert_has_calls(mock_calls, ExpectedCalls(test_data))
         THEN pc' = "final_hash" /\ UNCHANGED outcome
         ELSE Raise("AssertionError")
    /\ UNCHANGED <<patched, fixture, proof_of_stake, idx, chain, mock_calls, closed>>

CheckLastHash ==
    /\ pc = "final_hash"
    /\ Log("final_hash", 0, LastHashCheck(chain, test_data))
    /\ IF LastHashCheck(chain, test_data)
         THEN pc' = "post_state" /\ UNCHANGED outcome
         ELSE Raise("AssertionError")
    /\ UNCHANGED <<patched, fixture, proof_of_stake, idx, chain, mock_calls, closed>>

CheckPostState ==
    /\ pc = "post_state"
    /\ Log("post_state", 0, PostStateCheck(chain, test_data))
    /\ IF PostStateCheck(chain, test_data)
         THEN pc' = "close_chain" /\ UNCHANGED outcome
         ELSE Raise("AssertionError")
    /\ UNCHANGED <<patched, fixture, proof_of_stake, idx, chain, mock_calls, closed>>

CloseChainState ==
    /\ pc = "close_chain"
    /\ closed' = closed \cup {"chain.state"}
    /\ pc' = "close_expected"
    /\ UNCHANGED <<fixture, proof_of_stake, idx, chain, patched, mock_calls,
                   outcome, trace>>

CloseExpectedState ==
    /\ pc = "close_expected"
    /\ closed' = closed \cup {"expected_post_state"}
    /\ pc' = "done"
    /\ outcome' = "passed"
    /\ UNCHANGED <<fixture, proof_of_stake, idx, chain, patched, mock_calls, trace>>

RInit ==
    /\ fixture \in Fixtures
    /\ proof_of_stake \in BOOLEAN
    /\ pc = "start"
    /\ idx = 1
    /\ chain = NoChain
    /\ patched = FALSE
    /\ mock_calls = <<>>
    /\ closed = {}
    /\ outcome = "running"
    /\ trace = <<>>

\* discovery is idle during a replay
DIdle ==
    /\ dfiles = <<>>
    /\ only_in = <<>>
    /\ ignore_list = <<>>
    /\ slow_list = <<>>
    /\ big_memory_list = <<>>
    /\ dpc = "idle"
    /\ files_to_iterate = <<>>
    /\ fpos = 1
    /\ found_keys = <<>>
    /\ yielded = <<>>
    /\ no_tests = {}

Init == RInit /\ DIdle

Next ==
    \/ LoadTest /\ UNCHANGED dvars
    \/ CheckGenesis /\ UNCHANGED dvars
    \/ InitChain /\ UNCHANGED dvars
    \/ Branch /\ UNCHANGED dvars
    \/ CheckBlockHash /\ UNCHANGED dvars
    \/ CheckBlockRlp /\ UNCHANGED dvars
    \/ StateTransition /\ UNCHANGED dvars
    \/ LoopExit /\ UNCHANGED dvars
    \/ AssertHasCalls /\ UNCHANGED dvars
    \/ CheckLastHash /\ UNCHANGED dvars
    \/ CheckPostState /\ UNCHANGED dvars
    \/ CloseChainState /\ UNCHANGED dvars
    \/ CloseExpectedState /\ UNCHANGED dvars

Spec == Init /\ [][Next]_vars

\* ------------------------------------------------------ discovery: strings
\* Strings are sequences of characters; a pattern is a literal with an
\* optional "$" anchor, matched with re.search semantics.
Str(c) == <<c>>
EmptyStr == <<>>

Pattern(lit, atEnd) == [lit |-> lit, atEnd |-> atEnd]

\* re.compile(p).search(str)
Search(p, str) ==
    \E k \in 1..(Len(str) - Len(p.lit) + 1) :
        /\ \A j \in 1..Len(p.lit) : str[k + j - 1] = p.lit[j]
        /\ p.atEnd => (k + Len(p.lit) - 1 = Len(str))

\* any(x.search(str) for x in patterns)
AnyMatch(patterns, str) == \E i \in 1..Len(patterns) : Search(patterns[i], str)

\* the network argument (tests/shanghai/test_state_transition.py line 18)
Network == "Shanghai"

\* full paths of the files under test_dir
PathOf(i) == IF i = 1 THEN Str("a") ELSE IF i = 2 THEN Str("b") ELSE Str("c")

\* test keys a file may hold, in file order; the empty string is a JSON key
KeyNames == << EmptyStr, Str("k") >>

\* a test object's "network" entry: a name, or no such field
NetworkFields == {"Shanghai", "Berlin", Absent}

\* the JSON contents of one file: for each key, not present or a test object
FileData ==
    { d \in [1..Len(KeyNames) -> NetworkFields \cup {"nokey"}] : TRUE }

\* data.items() of file content d: the (key, test) pairs, in file order
Items(d) ==
    LET present == { i \in 1..Len(KeyNames) : d[i] # "nokey" }
        F[i \in 0..Len(KeyNames)] ==
            IF i = 0 THEN <<>>
            ELSE IF i \in present
                 THEN Append(F[i - 1], [key |-> KeyNames[i], network |-> d[i]])
                 ELSE F[i - 1]
    IN F[Len(KeyNames)]

IgnoreLists == { <<>>, <<Pattern(Str("a"), FALSE)>>, <<Pattern(Str("a"), TRUE)>>,
                 <<Pattern(Str("k"), FALSE)>> }
SlowLists == { <<>>, <<Pattern(Str("k"), FALSE)>>, <<Pattern(Str("b"), FALSE)>> }
BigMemoryLists == { <<>>, <<Pattern(Str("k"), FALSE)>> }

\* ------------------------------------------------------- load_json_fixture
\* lines 142-148: the keys whose test has a network field equal to network
FoundKeys(items, network) ==
    LET keep(e) == e.network # Absent /\ e.network = network
        sel == SelectSeq(items, keep)
    IN [i \in 1..Len(sel) |-> sel[i].key]

\* any(found_keys): some key is truthy, that is a non-empty string
AnyKey(keys) == \E i \in 1..Len(keys) : keys[i] # EmptyStr

\* line 150
RaisesNoTestsFound(keys) == ~AnyKey(keys)

\* -------------------------------------------------- fetch_state_test_files
\* lines 175-193
FilesToIterate(files, onlyIn, ignore) ==
    IF Len(onlyIn) # 0
    THEN onlyIn
    ELSE SelectSeq([i \in 1..Len(files) |-> i],
                   LAMBDA i : ~AnyMatch(ignore, files[i].path))

\* lines 200-206
Identifier(path, key) == Str("(") \o path \o Str("|") \o key \o Str(")")

\* lines 207-214: what happens to the case with this identifier
Classify(ident, ignore, slow, big) ==
    IF AnyMatch(ignore, ident) THEN [yield |-> FALSE, marks |-> {}]
    ELSE IF AnyMatch(slow, ident) THEN [yield |-> TRUE, marks |-> {"slow"}]
    ELSE IF AnyMatch(big, ident) THEN [yield |-> TRUE, marks |-> {"bigmem"}]
    ELSE [yield |-> TRUE, marks |-> {}]

CurrentFile == files_to_iterate[fpos]

ListFiles ==
    /\ dpc = "start"
    /\ files_to_iterate' = FilesToIterate(dfiles, only_in, ignore_list)
    /\ fpos' = 1
    /\ dpc' = "next_file"
    /\ UNCHANGED <<dfiles, only_in, ignore_list, slow_list, big_memory_list,
                   found_keys, yielded, no_tests>>

\* the first next() on load_json_fixture: it reads the file and either raises
\* NoTestsFound, which the except clause turns into continue, or has keys
OpenFile ==
    /\ dpc = "next_file"
    /\ fpos <= Len(files_to_iterate)
    /\ LET keys == FoundKeys(Items(dfiles[CurrentFile].data), Network) IN
         IF RaisesNoTestsFound(keys)
         THEN /\ no_tests' = no_tests \cup {fpos}
              /\ fpos' = fpos + 1
              /\ UNCHANGED <<dpc, found_keys>>
         ELSE /\ found_keys' = keys
              /\ dpc' = "cases"
              /\ UNCHANGED <<fpos, no_tests>>
    /\ UNCHANGED <<dfiles, only_in, ignore_list, slow_list, big_memory_list,
                   files_to_iterate, yielded>>

ClassifyCase ==
    /\ dpc = "cases"
    /\ found_keys # <<>>
    /\ LET key == Head(found_keys)
           c == Classify(Identifier(dfiles[CurrentFile].path, key),
                         ignore_list, slow_list, big_memory_list)
       IN yielded' = IF c.yield
                     THEN Append(yielded, [file |-> CurrentFile, key |-> key,
                                           marks |-> c.marks])
                     ELSE yielded
    /\ found_keys' = Tail(found_keys)
    /\ UNCHANGED <<dfiles, only_in, ignore_list, slow_list, big_memory_list, dpc,
                   files_to_iterate, fpos, no_tests>>

FileDone ==
    /\ dpc = "cases"
    /\ found_keys = <<>>
    /\ fpos' = fpos + 1
    /\ dpc' = "next_file"
    /\ UNCHANGED <<dfiles, only_in, ignore_list, slow_list, big_memory_list,
                   files_to_iterate, found_keys, yielded, no_tests>>

Finish ==
    /\ dpc = "next_file"
    /\ fpos > Len(files_to_iterate)
    /\ dpc' = "done"
    /\ UNCHANGED <<dfiles, only_in, ignore_list, slow_list, big_memory_list,
                   files_to_iterate, fpos, found_keys, yielded, no_tests>>

DInit ==
    /\ dfiles \in [1..MaxFiles -> [path : {PathOf(i) : i \in 1..MaxFiles},
                                     data : FileData]]
    /\ \A i \in 1..MaxFiles : dfiles[i].path = PathOf(i)
    /\ only_in \in UNION { [1..k -> 1..MaxFiles] : k \in 0..MaxOnlyIn }
    /\ ignore_list \in IgnoreLists
    /\ slow_list \in SlowLists
    /\ big_memory_list \in BigMemoryLists
    /\ dpc = "start"
    /\ files_to_iterate = <<>>
    /\ fpos = 1
    /\ found_keys = <<>>
    /\ yielded = <<>>
    /\ no_tests = {}

\* the replay is idle during discovery
RIdle ==
    /\ fixture = [n |-> 0]
    /\ proof_of_stake = FALSE
    /\ pc = "idle"
    /\ idx = 1
    /\ chain = NoChain
    /\ patched = FALSE
    /\ mock_calls = <<>>
    /\ closed = {}
    /\ outcome = "running"
    /\ trace = <<>>

InitDiscover == DInit /\ RIdle

NextDiscover ==
    \/ ListFiles /\ UNCHANGED rvars
    \/ OpenFile /\ UNCHANGED rvars
    \/ ClassifyCase /\ UNCHANGED rvars
    \/ FileDone /\ UNCHANGED rvars
    \/ Finish /\ UNCHANGED rvars

SpecDiscover == InitDiscover /\ [][NextDiscover]_vars

\* ------------------------------------------------------- replay: properties
Events(name) == { k \in 1..Len(trace) : trace[k][1] = name }
Last(sq) == sq[Len(sq)]

\* the checks of a replay that applies n blocks, in the order of the code
ChecksOfBlocks(n) ==
    [ k \in 1..(3 * n) |->
        LET i == ((k - 1) \div 3) + 1
            r == (k - 1) % 3
        IN  IF r = 0 THEN <<"block_hash", i, TRUE>>
            ELSE IF r = 1 THEN <<"block_rlp", i, TRUE>>
            ELSE <<"state_transition", i, TRUE>> ]

NotHasCalls(e) == e[1] # "has_calls"

\* C1: a replay passes only if the genesis hash, then per block (in order) the
\* header hash, the encoding and the engine's acceptance, and then the final
\* hash and the post state all held; the final-hash and post-state checks are
\* never evaluated before every block has been applied.
C1_PassOnlyIfAllChecksInOrder ==
    /\ outcome = "passed" =>
         /\ rlp_hash(GenesisHeader) = fixture.genesis_hash
         /\ \A i \in 1..fixture.n :
               /\ rlp_hash(HeaderOf(i)) = fixture.block_header_hashes[i]
               /\ rlp_encode(BlockOf(i)) = fixture.block_rlps[i]
         /\ rlp_hash(Last(chain.blocks).header) = fixture.lastblockhash
         /\ chain.state = fixture.postState
         /\ SelectSeq(trace, NotHasCalls)
              = <<<<"genesis_hash", 0, TRUE>>>> \o ChecksOfBlocks(fixture.n)
                  \o << <<"final_hash", 0, TRUE>>, <<"post_state", 0, TRUE>> >>
    /\ \A k \in Events("final_hash") \cup Events("post_state") :
         \A i \in 1..fixture.n :
            \E j \in 1..(k - 1) : trace[j] = <<"state_transition", i, TRUE>>

C1_Witness ==
    /\ outcome = "passed"
    /\ fixture.n = MaxBlocks
    /\ Len(chain.blocks) = MaxBlocks + 1

\* C2: when the engine rejects block i the replay fails there with the
\* engine's error, state_transition is not invoked for any later block, and
\* the chain holds genesis plus exactly the blocks before i.
C2_RejectionStopsReplay ==
    \A k \in Events("state_transition") :
        trace[k][3] = FALSE =>
            LET i == trace[k][2] IN
            /\ k = Len(trace)
            /\ pc = "raised"
            /\ outcome = "InvalidBlock"
            /\ idx = i
            /\ \A m \in Events("state_transition") : trace[m][2] <= i
            /\ chain.blocks = <<[header |-> GenesisHeader]>>
                                \o [j \in 1..(i - 1) |-> BlockOf(j)]

C2_Witness ==
    /\ outcome = "InvalidBlock"
    /\ idx = MaxBlocks
    /\ Last(trace) = <<"state_transition", MaxBlocks, FALSE>>
    /\ Len(chain.blocks) = MaxBlocks

\* C3: state_transition is invoked for block i only right after block i's
\* header-hash check and then its encoding check passed; a block whose header
\* hash differs from the declared one fails the replay at i before
\* state_transition is invoked for it, with the blocks before i applied.
C3_ChecksPrecedeTransition ==
    /\ \A k \in Events("state_transition") :
         LET i == trace[k][2] IN
         /\ k >= 3
         /\ trace[k - 2] = <<"block_hash", i, TRUE>>
         /\ trace[k - 1] = <<"block_rlp", i, TRUE>>
         /\ rlp_hash(HeaderOf(i)) = fixture.block_header_hashes[i]
         /\ rlp_encode(BlockOf(i)) = fixture.block_rlps[i]
    /\ \A k \in Events("block_hash") :
         LET i == trace[k][2] IN
         rlp_hash(HeaderOf(i)) # fixture.block_header_hashes[i] =>
            /\ trace[k] = <<"block_hash", i, FALSE>>
            /\ k = Len(trace)
            /\ pc = "raised"
            /\ outcome = "AssertionError"
            /\ idx = i
            /\ \A m \in Events("state_transition") : trace[m][2] < i
            /\ \A j \in 1..(i - 1) :
                  \E m \in 1..(k - 1) : trace[m] = <<"state_transition", j, TRUE>>
            /\ Len(chain.blocks) = i

C3_Witness ==
    /\ outcome = "AssertionError"
    /\ Last(trace) = <<"block_hash", MaxBlocks, FALSE>>
    /\ \E m \in 1..Len(trace) : trace[m] = <<"state_transition", 1, TRUE>>

\* C4 (as claimed): a passing replay under the mock has recorded exactly one
\* hook invocation per block, in block order, with that block's header.
C4_ExactlyOneCallPerBlock ==
    (outcome = "passed" /\ fixture.sealEngine = "NoProof" /\ ~proof_of_stake)
        => mock_calls = ExpectedCalls(test_data)

\* C5 (as claimed): a replay that initialised a Chain has released both
\* stores when it ends, on success and on failure.
C5_TeardownOnEveryOutcome ==
    (chain.live /\ pc \in {"done", "raised"})
        => closed = {"chain.state", "expected_post_state"}

\* C6 (as claimed): a fixture without postState makes load_test raise
\* NoPostState, whatever its other fields hold, and nothing else runs.
C6_NoPostStateFirst ==
    (fixture.postState = Absent /\ pc # "start")
        => (outcome = "NoPostState" /\ pc = "raised" /\ trace = <<>>)

\* the branch at line 99 has been taken
Decided == chain.live /\ pc # "branch"

\* C10: the blocks are applied under the recording stand-in exactly when the
\* fixture is sealed NoProof and the engine is not proof-of-stake; otherwise
\* nothing is recorded and no call-log check is made, and a passing patched
\* replay has made the call-log check.

C10_PatchIffBypassAndNotPos ==
    /\ Decided =>
         (patched <=> (fixture.sealEngine = "NoProof" /\ ~proof_of_stake))
    /\ (fixture.sealEngine # "NoProof" \/ proof_of_stake) =>
         (mock_calls = <<>> /\ Events("has_calls") = {})
    /\ (outcome = "passed" /\ fixture.sealEngine = "NoProof" /\ ~proof_of_stake) =>
         Events("has_calls") # {}

C10_Witness ==
    /\ outcome = "passed"
    /\ patched
    /\ fixture.n = MaxBlocks
    /\ Events("has_calls") # {}

\* ---------------------------------------------------- discovery: properties
Range(sq) == { sq[i] : i \in 1..Len(sq) }

\* the keys of file i whose test object has network = Network
Participating(i) ==
    { e.key : e \in { x \in Range(Items(dfiles[i].data)) : x.network = Network } }

\* the file set: the only_in list, or every file under test_dir
FileSet == IF Len(only_in) # 0 THEN Range(only_in) ELSE 1..Len(dfiles)

YieldedPair(j) == <<yielded[j].file, yielded[j].key>>

\* C7 (as claimed): the generator yields exactly the participating (file, key)
\* pairs of the file set, minus those whose path or identifier an ignore
\* pattern matches, each once.
C7_YieldsExactlyParticipating ==
    dpc = "done" =>
        LET all == UNION { { <<i, k>> : k \in Participating(i) } : i \in FileSet }
            expected ==
                { c \in all :
                    /\ ~AnyMatch(ignore_list, dfiles[c[1]].path)
                    /\ ~AnyMatch(ignore_list, Identifier(dfiles[c[1]].path, c[2])) }
        IN  /\ { YieldedPair(j) : j \in 1..Len(yielded) } = expected
            /\ \A j1, j2 \in 1..Len(yielded) :
                  j1 # j2 => YieldedPair(j1) # YieldedPair(j2)

\* C8 (as claimed): every participating case of the files iterated is
\* classified ignore, then slow, then big_memory: dropped if an ignore pattern
\* matches its identifier, else yielded with the slow mark, else with the
\* bigmem mark, else unmarked; no yielded case carries both marks.
C8_ClassifiedInFixedOrder ==
    dpc = "done" =>
        /\ \A i \in Range(files_to_iterate) : \A k \in Participating(i) :
              LET ident == Identifier(dfiles[i].path, k)
                  mine == { j \in 1..Len(yielded) : YieldedPair(j) = <<i, k>> }
              IN  IF AnyMatch(ignore_list, ident) THEN mine = {}
                  ELSE /\ mine # {}
                       /\ \A j \in mine :
                            yielded[j].marks =
                                IF AnyMatch(slow_list, ident) THEN {"slow"}
                                ELSE IF AnyMatch(big_memory_list, ident) THEN {"bigmem"}
                                ELSE {}
        /\ \A j \in 1..Len(yielded) : Cardinality(yielded[j].marks) <= 1

\* load_json_fixture has run its search for the file at this position
Visited(pos) == pos < fpos \/ (pos = fpos /\ dpc = "cases")

\* C9 (as claimed): NoTestsFound is raised for a file exactly when it has no
\* participating test object; the file is skipped and every later file of the
\* file set is still visited.

C9_NoTestsFoundIffNoneParticipating ==
    /\ \A pos \in 1..Len(files_to_iterate) :
          Visited(pos) =>
              (pos \in no_tests <=> Participating(files_to_iterate[pos]) = {})
    /\ dpc = "done" => fpos = Len(files_to_iterate) + 1

====
